---- MODULE Spec2Model ----
(***************************************************************************)
(* Model of the ban importer (BanImporter: queueBan, saveBan, importBans)  *)
(* and of the Core jobs (updateSteamUserInfo, updateReputationPoints,      *)
(* exportExportBans) of src/ban-importer/src/core.js.                      *)
(*                                                                         *)
(* The backing store is the pair of tables steamUsers and bans (plus       *)
(* exportBans for the export job).  Every await on a store or API call is  *)
(* one action; the synchronous code between two awaits belongs to the      *)
(* action of the await that precedes it.                                   *)
(***************************************************************************)
EXTENDS Integers, Sequences, FiniteSets, TLC

\* ------------------------------------------------------------------ bounds
MaxUsers == 2
MaxBans == 3
MaxLists == 2
MaxTexts == 2
MaxBatchLen == 2
MaxFaults == 1
MaxRuns == 2

\* ------------------------------------------------- program constants
MAX_RETRIES == 5
Workers == 2

\* SQL NULL / JS null.
NULL == -1

UserIds == 1..MaxUsers
BanIds == 1..MaxBans
BanListIds == 1..MaxLists
WorkerIds == 1..Workers

Range(s) == {s[i] : i \in DOMAIN s}

\* The four derived-data timestamps of a SteamUser row.
AllStamps == {"lastRefreshedInfo", "lastRefreshedExport",
              "lastRefreshedReputationPoints", "lastRefreshedReputationRank"}

\* ------------------------------------------------------------ the store
\* A SteamUser row as bulkCreate({id}) inserts it: every other column at
\* its default.
NewSteamUser ==
  [exists |-> TRUE, profile |-> NULL,
   lastRefreshedInfo |-> NULL, lastRefreshedExport |-> NULL,
   lastRefreshedReputationPoints |-> NULL, lastRefreshedReputationRank |-> NULL,
   reputationPoints |-> 0, reputationPointsMonthBefore |-> 0,
   reputationPointsMonthChange |-> 0, reputationRank |-> NULL]

NoSteamUser == [NewSteamUser EXCEPT !.exists = FALSE]

\* A row whose derived data is cached-valid (every timestamp set at time t).
CachedSteamUser(t) ==
  [NewSteamUser EXCEPT !.profile = 0,
                       !.lastRefreshedInfo = t, !.lastRefreshedExport = t,
                       !.lastRefreshedReputationPoints = t,
                       !.lastRefreshedReputationRank = t,
                       !.reputationRank = 1]

NoBan ==
  [exists |-> FALSE, created |-> NULL, expires |-> NULL, expired |-> FALSE,
   reason |-> 0, rawReason |-> 0, rawNote |-> 0, steamUser |-> 0, banList |-> 0]

\* UPDATE SteamUsers SET <fields> = NULL WHERE id IN ids.
NullStamps(users, ids, fields) ==
  [u \in DOMAIN users |->
     IF u \in ids /\ users[u].exists
       THEN [f \in DOMAIN users[u] |->
               IF f \in fields THEN NULL ELSE users[u][f]]
       ELSE users[u]]

\* ------------------------------------------------- the ingestion source
\* The source list and the user of a ban id are fixed by the source: list 1
\* always reports at least two ids.
ListOf(b) == IF b = 1 THEN 1 ELSE ((b - 2) % MaxLists) + 1
UserOf(b) == ((b - 1) % MaxUsers) + 1

\* The raw ban record the fetcher hands to queueBan for ban id b, reported
\* with the given expired flag and text.
RawBan(b, expired, text) ==
  [id |-> b,
   created |-> IF b % 2 = 0 THEN NULL ELSE b,
   expires |-> IF expired THEN 0 ELSE NULL,
   expired |-> expired,
   reason |-> text, rawReason |-> text, rawNote |-> text,
   steamUser |-> UserOf(b), banList |-> ListOf(b)]

\* What a source may report about one id: nothing, the ban still running
\* (with one of the texts), or the ban expired.
Reports ==
  {[reported |-> FALSE, expired |-> FALSE, text |-> 1]} \cup
  [reported : {TRUE}, expired : {FALSE}, text : 1..MaxTexts] \cup
  {[reported |-> TRUE, expired |-> TRUE, text |-> 1]}

VARIABLES
  steamUsers,          \* table SteamUsers: id -> row
  bans,                \* table Bans: id -> row
  now,                 \* the clock (Date.now(), NOW())
  source,              \* what each source list reports this run: ban id -> report
  importedBanListIDs,  \* BanImporter.importedBanListIDs
  importedBanIDs,      \* BanImporter.importedBanIDs
  saveBanQueue,        \* tasks pushed on BanImporter.saveBanQueue, not yet taken
  workers,             \* the queue's workers: each one's position in saveBan
  importer,            \* the position and locals of importBans
  faults,              \* store/fetch calls that failed on all their retries
  hist,                \* what the run did: rows inserted, rows deleted, snapshots
  refresher,           \* the position and locals of Core.updateSteamUserInfo
  exportBans,          \* table ExportBans: id -> row
  exportBanLists,      \* table ExportBanLists: id -> row
  exporter,            \* the position and locals of Core.exportExportBans
  discord,             \* the Discord webhook messages sent so far
  ranker,              \* updateReputationRank: position, @Dt and the temporary table
  retry,               \* a call of retryOperation: its arguments, position and locals
  race                 \* a call of withTimeout: the promise, the timer and the race

\* The state of the importer object and of its run.
importVars == <<source, importedBanListIDs, importedBanIDs, saveBanQueue,
                workers, importer, hist>>

\* The state of the Core jobs.
\* The two combinators.
utilVars == <<retry, race>>

coreVars == <<refresher, exportBans, exportBanLists, exporter, discord, ranker,
              utilVars>>

vars == <<steamUsers, bans, now, faults, importVars, coreVars>>

Min(a, b) == IF a < b THEN a ELSE b

\* retryOperation(operation): the operation fails `failures` times in a row
\* from the first attempt on; it is invoked until it succeeds or until
\* attempt MAX_RETRIES has failed.  TRUE iff retryOperation returns.
RetryOperation(failures) == failures < MAX_RETRIES

\* The outcomes a store call can have, as a number of leading failed attempts;
\* a call that fails on every attempt uses up one unit of the fault budget.
Failures == 0..MAX_RETRIES

\* Some store call fails on every attempt, within the fault budget.
Exhausted ==
  /\ \E failures \in Failures : ~RetryOperation(failures)
  /\ faults < MaxFaults
  /\ faults' = faults + 1

\* Some store call returns within its attempts.
Returned == \E failures \in Failures : RetryOperation(failures)

\* ------------------------------------------------------------- BanFetcher
RECURSIVE ReportedFrom(_, _)
ReportedFrom(l, b) ==
  IF b > MaxBans THEN <<>>
  ELSE (IF ListOf(b) = l /\ source[b].reported
          THEN <<RawBan(b, source[b].expired, source[b].text)>>
          ELSE <<>>) \o ReportedFrom(l, b + 1)

\* The raw bans source list l reports, in the order the fetcher pages them.
Reported(l) == ReportedFrom(l, 1)

IdleWorker ==
  [pc |-> "idle", importedBan |-> NoBan, ban |-> NoBan, created |-> FALSE]

IdleImporter ==
  [pc |-> "idle", run |-> 0, currentList |-> 0, fetchAttempt |-> 0,
   fetchPos |-> 0, paged |-> FALSE, batch |-> <<>>, deletedBans |-> {}]

\* No Core job is running and nothing is to be exported.
\* updateReputationRank before it is called: @Dt unset, no temporary table.
IdleRanker == [pc |-> "idle", Dt |-> NULL, Temp_RankedSteamUsers |-> <<>>]

\* No call of retryOperation under way.
\* No call of retryOperation under way.
NoError == [kind |-> "none", at |-> 0]

IdleRetry ==
  [pc |-> "idle", retries |-> 0, attempt |-> 0, invoked |-> <<>>,
   returned |-> NULL, thrown |-> NoError]

\* No call of withTimeout under way.
IdleRace ==
  [pc |-> "idle", site |-> "none", op |-> "none", started |-> 0,
   timer |-> "unset", deadline |-> 0, outcome |-> "none", result |-> NULL]

UtilIdle ==
  /\ retry = IdleRetry
  /\ race = IdleRace

CoreIdle ==
  /\ UtilIdle
  /\ ranker = IdleRanker
  /\ refresher = [pc |-> "idle"]
  /\ exportBans = <<>>
  /\ exportBanLists = <<>>
  /\ exporter = [pc |-> "idle"]
  /\ discord = <<>>

NoHistory ==
  [inserted |-> {}, created |-> {}, deleted |-> {}, dropped |-> {},
   queued |-> {}, afterFirstRun |-> <<>>]

\* ----------------------------------------------------- BanImporter.queueBan
\* A bulk upsert that inserts no row.
BulkCreateNothing(users, ids) == users

\* SteamUser.bulkCreate(ids, {updateOnDuplicate: ['id']}): insert the absent
\* rows, leave the existing ones as they are.
BulkCreate(users, ids) ==
  [u \in DOMAIN users |->
     IF u \in ids /\ ~users[u].exists THEN NewSteamUser ELSE users[u]]

BatchUsers(importedBans) == {importedBans[i].steamUser : i \in DOMAIN importedBans}
BatchLists(importedBans) == {importedBans[i].banList : i \in DOMAIN importedBans}

\* A batch none of whose ids is recorded.
BatchIdsNone(importedBans) == <<>>

BatchIds(importedBans) == [i \in DOMAIN importedBans |-> importedBans[i].id]

\* queueBan on an empty batch returns at once.
QueueBanEmpty ==
  /\ importer.pc = "queueBan"
  /\ Len(importer.batch) = 0
  /\ importer' = [importer EXCEPT !.pc = "fetch"]
  /\ UNCHANGED <<coreVars, steamUsers, bans, now, source, importedBanListIDs,
                 importedBanIDs, saveBanQueue, workers, faults, hist>>

\* The bulk upsert succeeded: record list ids and ban ids, push every ban.
QueueBanUpserted ==
  /\ importer.pc = "queueBan"
  /\ Len(importer.batch) > 0
  /\ Returned
  /\ steamUsers' = BulkCreate(steamUsers, BatchUsers(importer.batch))
  /\ hist' = [hist EXCEPT
       !.inserted = @ \cup {u \in BatchUsers(importer.batch) : ~steamUsers[u].exists},
       !.queued = @ \cup {importer.batch[i].id : i \in DOMAIN importer.batch}]
  /\ importedBanListIDs' = importedBanListIDs \cup BatchLists(importer.batch)
  /\ importedBanIDs' = importedBanIDs \o BatchIds(importer.batch)
  /\ saveBanQueue' = saveBanQueue \o importer.batch
  /\ importer' = [importer EXCEPT !.pc = "fetch", !.batch = <<>>]
  /\ UNCHANGED <<coreVars, bans, now, source, workers, faults>>

\* A queueBan without its catch block: the error of the upsert is thrown on
\* to importBans.
QueueBanRethrown(imp) == [imp EXCEPT !.pc = "thrown", !.batch = <<>>]

\* catch (err) { Logger.verbose(...) }: queueBan returns to the fetch loop.
QueueBanCaught(imp) == [imp EXCEPT !.pc = "fetch", !.batch = <<>>]

\* The bulk upsert failed on every attempt: the batch is logged and dropped.
QueueBanFailed ==
  /\ importer.pc = "queueBan"
  /\ Len(importer.batch) > 0
  /\ Exhausted
  /\ importer' = QueueBanCaught(importer)
  /\ hist' = [hist EXCEPT !.dropped = @ \cup Range(BatchIds(importer.batch))]
  /\ UNCHANGED <<coreVars, steamUsers, bans, now, source, importedBanListIDs,
                 importedBanIDs, saveBanQueue, workers>>

\* ------------------------------------------------------ BanImporter.saveBan
\* async.queue runs the oldest pushed task when fewer than `Workers` tasks
\* are running: saveBan(importedBan) is called (the task takes the first free
\* slot: the queue only counts its running tasks).
SaveBanStart(w) ==
  /\ workers[w].pc = "idle"
  /\ \A v \in 1..(w - 1) : workers[v].pc # "idle"
  /\ saveBanQueue # <<>>
  /\ workers' = [workers EXCEPT ![w] =
                   [IdleWorker EXCEPT !.pc = "findOrCreate",
                                      !.importedBan = Head(saveBanQueue)]]
  /\ saveBanQueue' = Tail(saveBanQueue)
  /\ UNCHANGED <<coreVars, steamUsers, bans, now, source, importedBanListIDs,
                 importedBanIDs, importer, faults, hist>>

\* The defaults of Ban.findOrCreate: the row created when the id is absent.
BanDefaults(importedBan) ==
  [exists |-> TRUE,
   created |-> IF importedBan.created # NULL THEN importedBan.created ELSE now,
   expires |-> importedBan.expires,
   expired |-> importedBan.expired,
   reason |-> importedBan.reason,
   rawReason |-> importedBan.rawReason,
   rawNote |-> importedBan.rawNote,
   steamUser |-> importedBan.steamUser,
   banList |-> importedBan.banList]

\* The refresh condition without its second disjunct.
NeedsRefreshCreatedOnly(created, ban, importedBan) == created

\* The refresh condition taken on every ban.
NeedsRefreshAlways(created, ban, importedBan) == TRUE

\* if (created || ban.expired !== importedBan.expired)
NeedsRefresh(created, ban, importedBan) ==
  created \/ ban.expired # importedBan.expired

\* The fields saveBan nulls on the owning user.
SaveBanStamps ==
  {"lastRefreshedExport", "lastRefreshedReputationPoints",
   "lastRefreshedReputationRank"}

\* Ban.findOrCreate returned [ban, created].
SaveBanFindOrCreate(w) ==
  LET importedBan == workers[w].importedBan
      created == ~bans[importedBan.id].exists
      ban == IF created THEN BanDefaults(importedBan) ELSE bans[importedBan.id]
  IN /\ workers[w].pc = "findOrCreate"
     /\ Returned
     /\ bans' = [bans EXCEPT ![importedBan.id] = ban]
     /\ hist' = [hist EXCEPT !.created =
                   IF created THEN @ \cup {importedBan.id} ELSE @]
     /\ workers' = [workers EXCEPT ![w].ban = ban, ![w].created = created,
                      ![w].pc = IF NeedsRefresh(created, ban, importedBan)
                                  THEN "refresh" ELSE "save"]
     /\ UNCHANGED <<coreVars, steamUsers, now, source, importedBanListIDs, importedBanIDs,
                    saveBanQueue, importer, faults>>

\* SteamUser.update({...: null}, {where: {id: importedBan.steamUser}}) returned.
SaveBanRefresh(w) ==
  /\ workers[w].pc = "refresh"
  /\ Returned
  /\ steamUsers' = NullStamps(steamUsers, {workers[w].importedBan.steamUser},
                              SaveBanStamps)
  /\ workers' = [workers EXCEPT ![w] =
                   IF workers[w].created THEN IdleWorker
                   ELSE [workers[w] EXCEPT !.pc = "save"]]
  /\ UNCHANGED <<coreVars, bans, now, source, importedBanListIDs, importedBanIDs,
                 saveBanQueue, importer, faults, hist>>

\* The columns ban.save() writes.
SavedFields == {"expires", "expired", "reason", "rawReason", "rawNote"}

\* ban.save(): UPDATE Bans SET <the assigned fields that changed on the
\* instance> WHERE id = ban.id.
SaveRow(row, ban, importedBan) ==
  IF ~row.exists THEN row
  ELSE [f \in DOMAIN row |->
          IF f \in SavedFields /\ ban[f] # importedBan[f]
            THEN importedBan[f] ELSE row[f]]

\* ban.save() returned.
SaveBanSave(w) ==
  LET importedBan == workers[w].importedBan
  IN /\ workers[w].pc = "save"
     /\ Returned
     /\ bans' = [bans EXCEPT ![importedBan.id] =
                   SaveRow(@, workers[w].ban, importedBan)]
     /\ workers' = [workers EXCEPT ![w] = IdleWorker]
     /\ UNCHANGED <<coreVars, steamUsers, now, source, importedBanListIDs, importedBanIDs,
                    saveBanQueue, importer, faults, hist>>

\* One of saveBan's store calls failed on every attempt: the error is caught
\* and logged, the task ends.
SaveBanFailed(w) ==
  /\ workers[w].pc \in {"findOrCreate", "refresh", "save"}
  /\ Exhausted
  /\ workers' = [workers EXCEPT ![w] = IdleWorker]
  /\ UNCHANGED <<coreVars, steamUsers, bans, now, source, importedBanListIDs,
                 importedBanIDs, saveBanQueue, importer, hist>>

\* --------------------------------------------------- BanImporter.importBans
\* importBans is called and BanList.findAll() returned: the fetch loop
\* starts at the first list.
ImportBansStart ==
  /\ importer.pc = "idle"
  /\ Returned
  /\ importer' = [IdleImporter EXCEPT !.pc = "fetch", !.run = importer.run + 1,
                                      !.currentList = 1, !.fetchAttempt = 1]
  /\ hist' = [hist EXCEPT !.deleted = {}, !.dropped = {}, !.queued = {}]
  /\ UNCHANGED <<coreVars, steamUsers, bans, now, source, importedBanListIDs,
                 importedBanIDs, saveBanQueue, workers, faults>>

\* BanList.findAll() failed on every attempt: importBans throws.
ImportBansNoLists ==
  /\ importer.pc = "idle"
  /\ Exhausted
  /\ importer' = [IdleImporter EXCEPT !.pc = "thrown", !.run = importer.run + 1]
  /\ hist' = [hist EXCEPT !.deleted = {}, !.dropped = {}, !.queued = {}]
  /\ UNCHANGED <<coreVars, steamUsers, bans, now, source, importedBanListIDs,
                 importedBanIDs, saveBanQueue, workers>>

\* The loop over banLists moves on to the next list, or leaves the loop.
NextList(imp) ==
  [imp EXCEPT !.currentList = imp.currentList + 1,
              !.fetchAttempt = 1, !.fetchPos = 0, !.paged = FALSE,
              !.pc = IF imp.currentList = MaxLists THEN "drain" ELSE "fetch"]

\* fetcher.fetchBanList(banList) hands the next page of the list to queueBan
\* and awaits it; a list that reports nothing hands over one empty page.
FetchPage ==
  LET reported == Reported(importer.currentList)
      remaining == Len(reported) - importer.fetchPos
  IN /\ importer.pc = "fetch"
     /\ \/ /\ remaining > 0
           /\ \E n \in 1..Min(MaxBatchLen, remaining) :
                importer' = [importer EXCEPT
                  !.pc = "queueBan", !.paged = TRUE,
                  !.fetchPos = importer.fetchPos + n,
                  !.batch = SubSeq(reported, importer.fetchPos + 1,
                                   importer.fetchPos + n)]
        \/ /\ remaining = 0
           /\ ~importer.paged
           /\ importer' = [importer EXCEPT !.pc = "queueBan", !.paged = TRUE,
                                           !.batch = <<>>]
     /\ UNCHANGED <<coreVars, steamUsers, bans, now, source, importedBanListIDs,
                    importedBanIDs, saveBanQueue, workers, faults, hist>>

\* fetchBanList returned: every page of the list was handed over.
FetchDone ==
  /\ importer.pc = "fetch"
  /\ importer.paged
  /\ importer.fetchPos = Len(Reported(importer.currentList))
  /\ importer' = NextList(importer)
  /\ UNCHANGED <<coreVars, steamUsers, bans, now, source, importedBanListIDs,
                 importedBanIDs, saveBanQueue, workers, faults, hist>>

\* fetchBanList threw.  retryOperation calls it again from the first page;
\* `more` further attempts throw before their first page.  After attempt
\* MAX_RETRIES the error is caught and logged and the loop goes on.
FetchFailed ==
  /\ importer.pc = "fetch"
  /\ faults < MaxFaults
  /\ faults' = faults + 1
  /\ \E more \in 0..(MAX_RETRIES - importer.fetchAttempt) :
       LET attempt == importer.fetchAttempt + more
       IN importer' =
            IF attempt = MAX_RETRIES THEN NextList(importer)
            ELSE [importer EXCEPT !.fetchAttempt = attempt + 1,
                                  !.fetchPos = 0, !.paged = FALSE]
  /\ UNCHANGED <<coreVars, steamUsers, bans, now, source, importedBanListIDs,
                 importedBanIDs, saveBanQueue, workers, hist>>

\* await this.saveBanQueue.drain(callback): async's drain, given a callback,
\* registers it and returns undefined, so the await resumes whatever the
\* queue holds and whatever the workers are doing.
DrainResumes(queue, ws) == TRUE

Drain ==
  /\ importer.pc = "drain"
  /\ DrainResumes(saveBanQueue, workers)
  /\ importer' = [importer EXCEPT !.pc = "findAll"]
  /\ UNCHANGED <<coreVars, steamUsers, bans, now, source, importedBanListIDs,
                 importedBanIDs, saveBanQueue, workers, faults, hist>>

\* The selection without its ban-list condition.
DeletedBansAnyList(rows, listIDs, banIDs) ==
  {b \in DOMAIN rows : rows[b].exists /\ b \notin Range(banIDs)}

\* where: {id: {[Op.notIn]: importedBanIDs}, banList: {[Op.in]: [...importedBanListIDs]}}
DeletedBans(rows, listIDs, banIDs) ==
  {b \in DOMAIN rows :
     rows[b].exists /\ b \notin Range(banIDs) /\ rows[b].banList \in listIDs}

\* The fields the reconciler nulls on the owners of deleted bans.
DeletedBanStamps ==
  {"lastRefreshedInfo", "lastRefreshedExport",
   "lastRefreshedReputationPoints", "lastRefreshedReputationRank"}

\* Ban.findAll({attributes: ['steamUser'], where}) returned.
ReconcileFindAll ==
  /\ importer.pc = "findAll"
  /\ Returned
  /\ importer' = [importer EXCEPT !.pc = "update",
        !.deletedBans =
          {bans[b].steamUser :
             b \in DeletedBans(bans, importedBanListIDs, importedBanIDs)}]
  /\ UNCHANGED <<coreVars, steamUsers, bans, now, source, importedBanListIDs,
                 importedBanIDs, saveBanQueue, workers, faults, hist>>

\* SteamUser.update({...: null}, {where: {id: {[Op.in]: deletedBans}}}) returned.
ReconcileUpdate ==
  /\ importer.pc = "update"
  /\ Returned
  /\ steamUsers' = NullStamps(steamUsers, importer.deletedBans, DeletedBanStamps)
  /\ importer' = [importer EXCEPT !.pc = "destroy"]
  /\ UNCHANGED <<coreVars, bans, now, source, importedBanListIDs, importedBanIDs,
                 saveBanQueue, workers, faults, hist>>

\* Ban.destroy({where}) returned: importBans returns.
ReconcileDestroy ==
  LET deleted == DeletedBans(bans, importedBanListIDs, importedBanIDs)
  IN /\ importer.pc = "destroy"
     /\ Returned
     /\ bans' = [b \in DOMAIN bans |-> IF b \in deleted THEN NoBan ELSE bans[b]]
     /\ importer' = [importer EXCEPT !.pc = "done"]
     /\ hist' = [hist EXCEPT
          !.deleted = deleted,
          !.afterFirstRun = IF importer.run = 1 THEN <<steamUsers, bans'>> ELSE @]
     /\ UNCHANGED <<coreVars, steamUsers, now, source, importedBanListIDs, importedBanIDs,
                    saveBanQueue, workers, faults>>

\* One of the reconciler's store calls failed on every attempt: importBans
\* throws.
ReconcileFailed ==
  /\ importer.pc \in {"findAll", "update", "destroy"}
  /\ Exhausted
  /\ importer' = [importer EXCEPT !.pc = "thrown"]
  /\ UNCHANGED <<coreVars, steamUsers, bans, now, source, importedBanListIDs,
                 importedBanIDs, saveBanQueue, workers, hist>>

\* importBans has returned and is called again on the same importer, with
\* the sources reporting what they reported to the call before.
ImportBansAgain ==
  /\ importer.pc = "done"
  /\ importer.run < MaxRuns
  /\ Returned
  /\ importer' = [IdleImporter EXCEPT !.pc = "fetch", !.run = importer.run + 1,
                                      !.currentList = 1, !.fetchAttempt = 1]
  /\ hist' = [hist EXCEPT !.deleted = {}, !.dropped = {}, !.queued = {}]
  /\ UNCHANGED <<coreVars, steamUsers, bans, now, source, importedBanListIDs,
                 importedBanIDs, saveBanQueue, workers, faults>>

\* ------------------------------------------------------------ the importer
\* The stores an import run can start from: a ban row is absent or as an
\* earlier run left it, its owner exists, and the cached data of every
\* existing user is valid.
InitStores == [BanIds -> BOOLEAN]

\* What the sources report to a run that starts from store st: a ban the
\* store does not hold is reported, if at all, as running with the first text.
InitSources(st) ==
  {src \in [BanIds -> Reports] :
     \A b \in BanIds : st[b] \/ (~src[b].expired /\ src[b].text = 1)}

InitBan(b) == BanDefaults(RawBan(b, FALSE, 1))

Init ==
  /\ now = 1
  /\ \E st \in InitStores :
       /\ bans = [b \in BanIds |->
                   IF st[b] THEN [InitBan(b) EXCEPT !.created = 0] ELSE NoBan]
       /\ steamUsers = [u \in UserIds |->
                         IF \E b \in BanIds : st[b] /\ UserOf(b) = u
                           THEN CachedSteamUser(0) ELSE NoSteamUser]
       /\ source \in InitSources(st)
  /\ importedBanListIDs = {}
  /\ importedBanIDs = <<>>
  /\ saveBanQueue = <<>>
  /\ workers = [w \in WorkerIds |-> IdleWorker]
  /\ importer = IdleImporter
  /\ faults = 0
  /\ hist = NoHistory
  /\ CoreIdle

Next ==
  \/ ImportBansStart
  \/ ImportBansNoLists
  \/ FetchPage
  \/ FetchDone
  \/ FetchFailed
  \/ QueueBanEmpty
  \/ QueueBanUpserted
  \/ QueueBanFailed
  \/ \E w \in WorkerIds :
       \/ SaveBanStart(w)
       \/ SaveBanFindOrCreate(w)
       \/ SaveBanRefresh(w)
       \/ SaveBanSave(w)
       \/ SaveBanFailed(w)
  \/ Drain
  \/ ReconcileFindAll
  \/ ReconcileUpdate
  \/ ReconcileDestroy
  \/ ReconcileFailed

Spec == Init /\ [][Next]_vars

\* Two calls of importBans in a row, from an empty store.
InitRerun ==
  /\ now = 1
  /\ bans = [b \in BanIds |-> NoBan]
  /\ steamUsers = [u \in UserIds |-> NoSteamUser]
  /\ source \in InitSources([b \in BanIds |-> FALSE])
  /\ importedBanListIDs = {}
  /\ importedBanIDs = <<>>
  /\ saveBanQueue = <<>>
  /\ workers = [w \in WorkerIds |-> IdleWorker]
  /\ importer = IdleImporter
  /\ faults = 0
  /\ hist = NoHistory
  /\ CoreIdle

NextRerun == Next \/ ImportBansAgain

SpecRerun == InitRerun /\ [][NextRerun]_vars

\* ------------------------------------------------------------------ claims
Stale(user, fields) == \A f \in fields : user[f] = NULL

\* The step is one of worker w's, and no store call of it failed.
Returns(w) == workers'[w] # workers[w] /\ faults' = faults

\* saveBan found the ban and its expired flag differs from the raw record's.
Flipped(worker) ==
  ~worker.created /\ worker.ban.expired # worker.importedBan.expired

\* C1: a Ban row is only ever written for a user whose SteamUser row is in
\* the store in the state the write starts from.
C1_UserBeforeBan ==
  [][\A b \in BanIds :
       (~bans[b].exists /\ bans'[b].exists)
         => steamUsers[bans'[b].steamUser].exists]_vars

\* C1 witness: saveBan has written a Ban row whose owner this run's bulk
\* upsert inserted.
C1_Witness ==
  \E b \in hist.created :
    bans[b].exists /\ bans[b].steamUser \in hist.inserted

\* C2 as stated: when saveBan has created the ban, or found it with another
\* expired flag, and none of its store calls failed, all four timestamps of
\* the owner are null when saveBan ends.
C2_AllFourNulled ==
  [][\A w \in WorkerIds :
       (/\ Returns(w)
        /\ workers'[w].pc = "idle"
        /\ workers[w].pc \in {"refresh", "save"}
        /\ (workers[w].created \/ Flipped(workers[w])))
         => Stale(steamUsers'[workers[w].importedBan.steamUser], AllStamps)]_vars

\* C2 amended: when saveBan has created the ban, or found it with another
\* expired flag, it issues the user update; when the update has returned,
\* and still when saveBan ends, lastRefreshedExport,
\* lastRefreshedReputationPoints and lastRefreshedReputationRank of the owner
\* are null, and saveBan leaves lastRefreshedInfo as it was.
C2_ThreeNulled ==
  [][\A w \in WorkerIds :
       LET u == workers[w].importedBan.steamUser
           three == AllStamps \ {"lastRefreshedInfo"}
       IN /\ (/\ Returns(w)
               /\ workers[w].pc = "findOrCreate"
               /\ (workers'[w].created \/ Flipped(workers'[w])))
                => workers'[w].pc = "refresh"
          /\ (Returns(w) /\ workers[w].pc = "refresh")
                => /\ Stale(steamUsers'[u], three)
                   /\ steamUsers'[u].lastRefreshedInfo = steamUsers[u].lastRefreshedInfo
          /\ (/\ workers'[w].pc = "idle"
               /\ workers[w].pc = "save"
               /\ Flipped(workers[w]))
                => /\ Stale(steamUsers'[u], three)
                   /\ steamUsers'[u].lastRefreshedInfo = steamUsers[u].lastRefreshedInfo]_vars

\* C2 witness: a user whose three timestamps saveBan nulled while the
\* profile timestamp is still set.
C2_Witness ==
  \E u \in UserIds :
    /\ steamUsers[u].exists
    /\ steamUsers[u].lastRefreshedInfo # NULL
    /\ Stale(steamUsers[u], AllStamps \ {"lastRefreshedInfo"})

\* C3: when saveBan finds the ban with the raw record's expired flag, it goes
\* straight to ban.save(), no step of it changes any SteamUser row, and when
\* the save has returned the row carries the raw reason, rawReason and rawNote.
C3_TextOnlyUpdate ==
  [][\A w \in WorkerIds :
       LET raw == workers[w].importedBan
       IN /\ (/\ Returns(w)
               /\ workers[w].pc = "findOrCreate"
               /\ ~workers'[w].created
               /\ ~Flipped(workers'[w]))
                => workers'[w].pc = "save" /\ steamUsers' = steamUsers
          /\ (/\ workers'[w].pc = "idle"
               /\ workers[w].pc = "save"
               /\ ~Flipped(workers[w]))
                => /\ steamUsers' = steamUsers
                   /\ Returns(w) =>
                        /\ bans'[raw.id].exists
                        /\ bans'[raw.id].reason = raw.reason
                        /\ bans'[raw.id].rawReason = raw.rawReason
                        /\ bans'[raw.id].rawNote = raw.rawNote]_vars

\* C3 witness: a stored ban took the second text from its raw record while
\* every timestamp of its owner is still set.
C3_Witness ==
  \E b \in BanIds :
    /\ bans[b].exists
    /\ bans[b].reason = MaxTexts /\ bans[b].rawNote = MaxTexts
    /\ \A f \in AllStamps : steamUsers[bans[b].steamUser][f] # NULL

\* C4: Ban rows leave the store only in the step in which importBans
\* returns; the rows that leave are exactly the stored bans whose list is in
\* importedBanListIDs and whose id is not in importedBanIDs; and every owner
\* of such a row then has all four timestamps null.
C4_ReconcilerDeletesOrphans ==
  [][LET gone == {b \in BanIds : bans[b].exists /\ ~bans'[b].exists}
         orphans == {b \in BanIds :
                       /\ bans[b].exists
                       /\ bans[b].banList \in importedBanListIDs
                       /\ \A i \in DOMAIN importedBanIDs : importedBanIDs[i] # b}
     IN /\ gone # {} => (importer.pc = "destroy" /\ importer'.pc = "done")
        /\ (importer.pc = "destroy" /\ importer'.pc = "done")
             => /\ gone = orphans
                /\ \A b \in gone :
                     Stale(steamUsers'[bans[b].steamUser], AllStamps)]_vars

\* C4 witness: importBans has returned and its reconciler deleted a row.
C4_Witness == importer.pc = "done" /\ hist.deleted # {}

\* C5: while the reconciler selects, invalidates or deletes, no save task is
\* waiting in the queue and no worker is inside saveBan.
C5_ReconcileAfterDrain ==
  importer.pc \in {"findAll", "update", "destroy"}
    => /\ saveBanQueue = <<>>
       /\ \A w \in WorkerIds : workers[w].pc = "idle"

\* C6: when a second call of importBans, fed what the first was fed and with
\* no failed call in either, has returned, the store is as it was when the
\* first call returned.
C6_RerunChangesNothing ==
  (importer.run = MaxRuns /\ importer.pc = "done" /\ faults = 0)
    => <<steamUsers, bans>> = hist.afterFirstRun

\* ------------------------------------------------- Core.updateSteamUserInfo
MaxRefreshUsers == 11
MaxOtherErrors == 4

UPDATE_STEAM_USER_INFO_REFRESH_INTERVAL == 7 * 24 * 60 * 60 * 1000
UPDATE_STEAM_USER_INFO_BATCH_SIZE == 10
UPDATE_STEAM_USER_INFO_BATCH_RETRIES == 3

\* let data = null
NoData == [null |-> TRUE, players |-> <<>>]

\* What data?.response?.players is when data is null.
Undefined == <<NULL>>

RECURSIVE UsersToUpdateFrom(_)
UsersToUpdateFrom(u) ==
  IF u \notin DOMAIN steamUsers THEN <<>>
  ELSE (IF /\ steamUsers[u].exists
           /\ \/ steamUsers[u].lastRefreshedInfo = NULL
              \/ steamUsers[u].lastRefreshedInfo
                   < now - UPDATE_STEAM_USER_INFO_REFRESH_INTERVAL
          THEN <<u>> ELSE <<>>) \o UsersToUpdateFrom(u + 1)

\* SteamUser.findAll({where: lastRefreshedInfo null or older than the interval}).
UsersToUpdate == UsersToUpdateFrom(1)

\* The top of `while (users.length > 0)`: the next batch is spliced off, or
\* the job ends.
NextBatch(r) ==
  IF r.users = <<>> THEN [r EXCEPT !.pc = "done", !.players = <<>>]
  ELSE LET n == Min(UPDATE_STEAM_USER_INFO_BATCH_SIZE, Len(r.users))
       IN [r EXCEPT !.pc = "steam",
                    !.batch = SubSeq(r.users, 1, n),
                    !.users = SubSeq(r.users, n + 1, Len(r.users)),
                    !.players = <<>>,
                    !.data = NoData,
                    !.numAttempts = 0,
                    !.calls = 0]

\* The loop over the players of a null response that falls back on the batch.
ResponsePlayersOrBatch(data, batch) ==
  IF data.null THEN batch ELSE data.players

\* data?.response?.players
ResponsePlayers(data, batch) ==
  IF data.null THEN Undefined ELSE data.players

\* The attempt loop has ended: `for (const user of data?.response?.players)`
\* throws a TypeError on undefined, and otherwise updates player by player.
AfterAttempts(r) ==
  LET players == ResponsePlayers(r.data, r.batch)
  IN IF players = Undefined THEN [r EXCEPT !.pc = "thrown", !.error = "TypeError"]
     ELSE IF players = <<>> THEN NextBatch(r)
     ELSE [r EXCEPT !.pc = "update", !.players = players]

\* The player lists GetPlayerSummaries may answer a batch with: it may omit ids.
Responses(batch) ==
  {batch, <<>>} \cup
  {SubSeq(batch, 1, i - 1) \o SubSeq(batch, i + 1, Len(batch)) : i \in DOMAIN batch}

\* The profile the API reports for a user.
ApiProfile(u) == u

IdleRefresher ==
  [pc |-> "idle", users |-> <<>>, batch |-> <<>>, data |-> NoData,
   numAttempts |-> 0, players |-> <<>>, error |-> "none",
   lastOutcome |-> "none", otherErrors |-> 0, calls |-> 0, before |-> <<>>]

\* updateSteamUserInfo is called and SteamUser.findAll returned.
RefreshStart ==
  /\ refresher.pc = "idle"
  /\ refresher' = NextBatch([refresher EXCEPT !.users = UsersToUpdate,
                                              !.before = steamUsers])
  /\ UNCHANGED <<steamUsers, bans, now, faults, importVars, utilVars,
                 exportBans, exportBanLists, exporter, discord, ranker>>

\* The call of the Steam API returned a response.
SteamReturned ==
  /\ refresher.pc = "steam"
  /\ \E players \in Responses(refresher.batch) :
       refresher' = AfterAttempts(
         [refresher EXCEPT !.data = [null |-> FALSE, players |-> players],
                           !.numAttempts = 50,
                           !.calls = @ + 1,
                           !.lastOutcome = "ok"])
  /\ UNCHANGED <<steamUsers, bans, now, faults, importVars, utilVars,
                 exportBans, exportBanLists, exporter, discord, ranker>>

\* The call failed with an error whose message is 'timeout'.
SteamTimeout ==
  /\ refresher.pc = "steam"
  /\ LET r == [refresher EXCEPT !.numAttempts = @ + 1, !.calls = @ + 1,
                                !.lastOutcome = "timeout"]
     IN refresher' =
          IF r.numAttempts < UPDATE_STEAM_USER_INFO_BATCH_RETRIES
            THEN r ELSE AfterAttempts(r)
  /\ UNCHANGED <<steamUsers, bans, now, faults, importVars, utilVars,
                 exportBans, exportBanLists, exporter, discord, ranker>>

\* A status-429 failure handled like any other failure.
RethrownNever(status) == FALSE

\* if (err.response?.status === 429) throw err;
Rethrown(status) == status = "429"

HttpStatuses == {"429", "500"}

\* The call failed with another error: a 429 is thrown on; anything else is
\* logged, and the loop condition (data still null, numAttempts as it was)
\* calls the API again.
SteamFailed ==
  /\ refresher.pc = "steam"
  /\ \E status \in HttpStatuses :
       IF Rethrown(status)
         THEN refresher' = [refresher EXCEPT !.pc = "thrown", !.error = status,
                                             !.calls = @ + 1,
                                             !.lastOutcome = status]
         ELSE /\ refresher.otherErrors < MaxOtherErrors
              /\ refresher' = [refresher EXCEPT !.otherErrors = @ + 1,
                                                !.calls = @ + 1,
                                                !.lastOutcome = status]
  /\ UNCHANGED <<steamUsers, bans, now, faults, importVars, utilVars,
                 exportBans, exportBanLists, exporter, discord, ranker>>

\* The player loop moves on to the next player, or to the next batch.
NextPlayer(r) ==
  IF Tail(r.players) = <<>> THEN NextBatch(r)
  ELSE [r EXCEPT !.players = Tail(r.players)]

\* SteamUser.update({name, ..., lastRefreshedInfo: Date.now()}, {where: {id}})
\* returned.
UpdatePlayerSaved ==
  LET u == Head(refresher.players)
  IN /\ refresher.pc = "update"
     /\ steamUsers' =
          [steamUsers EXCEPT ![u] =
             IF @.exists
               THEN [@ EXCEPT !.profile = ApiProfile(u), !.lastRefreshedInfo = now]
               ELSE @]
     /\ refresher' = NextPlayer(refresher)
     /\ UNCHANGED <<bans, now, faults, importVars, utilVars,
                    exportBans, exportBanLists, exporter, discord, ranker>>

\* SteamUser.update failed: logged, the loop goes on with the next player.
UpdatePlayerFailed ==
  /\ refresher.pc = "update"
  /\ faults < MaxFaults
  /\ faults' = faults + 1
  /\ refresher' = NextPlayer(refresher)
  /\ UNCHANGED <<steamUsers, bans, now, importVars, utilVars,
                 exportBans, exportBanLists, exporter, discord, ranker>>

\* No import runs.
ImportIdle ==
  /\ source = <<>>
  /\ importedBanListIDs = {}
  /\ importedBanIDs = <<>>
  /\ saveBanQueue = <<>>
  /\ workers = [w \in WorkerIds |-> IdleWorker]
  /\ importer = IdleImporter
  /\ hist = NoHistory

\* The first `stale` users are due for a refresh (never refreshed, or
\* refreshed more than the interval ago); the others were refreshed exactly
\* the interval ago, which is not yet due.
InitRefresh ==
  /\ now = UPDATE_STEAM_USER_INFO_REFRESH_INTERVAL + 2
  /\ \E stale \in 0..MaxRefreshUsers :
       steamUsers = [u \in 1..MaxRefreshUsers |->
         [CachedSteamUser(0) EXCEPT !.lastRefreshedInfo =
            IF u > stale THEN now - UPDATE_STEAM_USER_INFO_REFRESH_INTERVAL
            ELSE IF u % 2 = 1 THEN NULL
            ELSE now - UPDATE_STEAM_USER_INFO_REFRESH_INTERVAL - 1]]
  /\ bans = <<>>
  /\ faults = 0
  /\ ImportIdle
  /\ refresher = IdleRefresher
  /\ ranker = IdleRanker
  /\ UtilIdle
  /\ exportBans = <<>>
  /\ exportBanLists = <<>>
  /\ exporter = [pc |-> "idle"]
  /\ discord = <<>>

NextRefresh ==
  \/ RefreshStart
  \/ SteamReturned
  \/ SteamTimeout
  \/ SteamFailed
  \/ UpdatePlayerSaved
  \/ UpdatePlayerFailed

SpecRefresh == InitRefresh /\ [][NextRefresh]_vars

\* The users of the batch in hand and of the batches not yet spliced off.
Unprocessed == Range(refresher.batch) \cup Range(refresher.users)

\* C8: when the API call of a batch has timed out on all three attempts,
\* every user of that batch has the row (lastRefreshedInfo and profile
\* included) it had when the job started.
C8_TimedOutBatchUnchanged ==
  (/\ refresher.pc # "idle"
   /\ refresher.data.null
   /\ refresher.numAttempts = UPDATE_STEAM_USER_INFO_BATCH_RETRIES)
    => \A u \in Range(refresher.batch) : steamUsers[u] = refresher.before[u]

\* C8 witness: a batch of due users has timed out three times.
C8_Witness ==
  /\ refresher.pc # "idle"
  /\ refresher.data.null
  /\ refresher.numAttempts = UPDATE_STEAM_USER_INFO_BATCH_RETRIES
  /\ refresher.lastOutcome = "timeout"
  /\ Len(refresher.batch) = UPDATE_STEAM_USER_INFO_BATCH_SIZE

\* C9: once an API call has failed with status 429, the job has thrown that
\* error (so the batch is not retried and no later batch is requested), and
\* every user of the failing batch and of the batches not yet requested has
\* the row it had when the job started.
C9_RateLimitAborts ==
  (refresher.pc # "idle" /\ refresher.lastOutcome = "429")
    => /\ refresher.pc = "thrown"
       /\ refresher.error = "429"
       /\ \A u \in Unprocessed : steamUsers[u] = refresher.before[u]

\* C9 witness: a 429 on the second batch, after the first was updated.
C9_Witness ==
  /\ refresher.pc = "thrown"
  /\ refresher.error = "429"
  /\ refresher.batch # <<>>
  /\ \E u \in DOMAIN steamUsers : steamUsers[u].lastRefreshedInfo = now

\* ---------------------------------------------- Core.updateReputationPoints
MaxScoreBans == 3

\* INTERVAL 1 MONTH, in days: the clock of this job counts days.
MONTH == 30

RECURSIVE Sum(_)
\* SUM(...) over the rows of a group: f maps each row to its term.
Sum(f) ==
  IF DOMAIN f = {} THEN 0
  ELSE LET b == CHOOSE x \in DOMAIN f : TRUE
       IN f[b] + Sum([x \in DOMAIN f \ {b} |-> f[x]])

\* A ban that counts as running only strictly before its expiry.
RunningStrict(row, t) == row.expires = NULL \/ row.expires > t

\* B.expires IS NULL OR B.expires >= t
Running(row, t) == row.expires = NULL \/ row.expires >= t

\* FROM Bans B [WHERE B.created < createdBefore]
ScoredBans(rows, createdBefore) ==
  {b \in DOMAIN rows :
     rows[b].exists /\ (createdBefore = NULL \/ rows[b].created < createdBefore)}

\* GROUP BY B.banList, B.steamUser: the points of one group (PPBL.points).
BanListPoints(rows, group, t) ==
  (IF Sum([b \in group |-> IF Running(rows[b], t) THEN 1 ELSE 0]) > 0
     THEN 3 ELSE 0)
  + Sum([b \in group |-> IF Running(rows[b], t) THEN 0 ELSE 1])

\* GROUP BY PPBL.steamUser, LEFT JOINed on SU.id: the summed points of the
\* user's groups, NULL when the user has no group.
JoinedPoints(rows, scored, u, t) ==
  LET lists == {rows[b].banList : b \in {x \in scored : rows[x].steamUser = u}}
  IN IF lists = {} THEN NULL
     ELSE Sum([l \in lists |->
                 BanListPoints(rows,
                   {b \in scored : rows[b].steamUser = u /\ rows[b].banList = l},
                   t)])

IfNull(x, d) == IF x = NULL THEN d ELSE x

\* The UPDATE of updateReputationPoints returned.
UpdateReputationPoints ==
  /\ steamUsers' =
       [u \in DOMAIN steamUsers |->
          IF steamUsers[u].exists /\ steamUsers[u].lastRefreshedReputationPoints = NULL
            THEN LET current ==
                       IfNull(JoinedPoints(bans, ScoredBans(bans, NULL), u, now), 0)
                     before ==
                       IfNull(JoinedPoints(bans, ScoredBans(bans, now - MONTH), u,
                                           now - MONTH), 0)
                 IN [steamUsers[u] EXCEPT
                       !.reputationPoints = current,
                       !.reputationPointsMonthBefore = before,
                       !.reputationPointsMonthChange = current - before,
                       !.lastRefreshedReputationPoints = now]
            ELSE steamUsers[u]]
  /\ UNCHANGED <<bans, now, faults, importVars, coreVars>>

\* The ways the life of a stored ban can lie relative to the clock:
\* <<expires, created>>.
BanSpans ==
  << <<NULL, now - MONTH - 1>>,          \* permanent, older than a month
     <<NULL, now - MONTH>>,              \* permanent, created a month ago today
     <<now - 1, now - MONTH - 1>>,       \* expired yesterday
     <<now, now - MONTH>>,               \* expires today
     <<now - MONTH - 1, now - MONTH - 2>> >>  \* expired more than a month ago

BanKinds == MaxUsers * MaxLists * Len(BanSpans)

\* The k-th kind of Ban row (k = BanKinds: no row).  The expired flag is the
\* one the last import, a day ago, left.
KindRow(k) ==
  IF k = BanKinds THEN NoBan
  ELSE LET span == BanSpans[(k \div (MaxUsers * MaxLists)) + 1]
       IN [NoBan EXCEPT !.exists = TRUE,
                        !.steamUser = (k % MaxUsers) + 1,
                        !.banList = ((k \div MaxUsers) % MaxLists) + 1,
                        !.expires = span[1],
                        !.created = span[2],
                        !.expired = span[1] # NULL /\ span[1] < now - 1]

\* The Bans tables the job may find, up to the numbering of the rows.
ScoreTables ==
  {t \in [1..MaxScoreBans -> 0..BanKinds] :
     \A b \in 1..(MaxScoreBans - 1) : t[b] <= t[b + 1]}

InitScore ==
  /\ now = MONTH + 3
  /\ \E t \in ScoreTables : bans = [b \in 1..MaxScoreBans |-> KindRow(t[b])]
  /\ \E due \in SUBSET UserIds :
       steamUsers = [u \in UserIds |->
         [CachedSteamUser(0) EXCEPT
            !.reputationPoints = 7,
            !.lastRefreshedReputationPoints = IF u \in due THEN NULL ELSE 0]]
  /\ faults = 0
  /\ ImportIdle
  /\ CoreIdle

NextScore == UpdateReputationPoints

SpecScore == InitScore /\ [][NextScore]_vars

\* The user's bans on one list.
BansOn(u, l) ==
  {b \in DOMAIN bans :
     bans[b].exists /\ bans[b].steamUser = u /\ bans[b].banList = l}

\* A ban is expired once its expiry time has passed.
ExpiredBans(u, l) ==
  {b \in BansOn(u, l) : bans[b].expires # NULL /\ bans[b].expires < now}

RECURSIVE PointsUpTo(_, _)
\* 3 for each list with a ban of the user that has not expired, plus 1 for
\* each expired ban, summed over the lists 1..l.
PointsUpTo(u, l) ==
  IF l = 0 THEN 0
  ELSE PointsUpTo(u, l - 1)
       + (IF BansOn(u, l) \ ExpiredBans(u, l) # {} THEN 3 ELSE 0)
       + Cardinality(ExpiredBans(u, l))

\* C10: a user the job recomputes (points timestamp null before, set after)
\* gets as reputationPoints the sum over the ban lists of 3 if the user has
\* a ban on the list that has not expired, plus 1 per expired ban on the
\* list; with no bans that is 0.
C10_ReputationPoints ==
  [][\A u \in DOMAIN steamUsers :
       (/\ steamUsers[u].lastRefreshedReputationPoints = NULL
        /\ steamUsers'[u].lastRefreshedReputationPoints # NULL)
         => steamUsers'[u].reputationPoints = PointsUpTo(u, MaxLists)]_vars

\* C10 witness: a recomputed user with one running and two expired bans,
\* all on one list, has 5 points.
C10_Witness ==
  \E u \in DOMAIN steamUsers : \E l \in BanListIds :
    /\ steamUsers[u].lastRefreshedReputationPoints = now
    /\ steamUsers[u].reputationPoints = 5
    /\ Cardinality(BansOn(u, l)) = 3
    /\ Cardinality(ExpiredBans(u, l)) = 2
    /\ \A k \in BanListIds \ {l} : BansOn(u, k) = {}

\* ------------------------------------------------- Core.exportExportBans
MaxExportBans == 51

DISCORD_ALERT_CAP == 50

IdleExporter ==
  [pc |-> "idle", exportBans |-> <<>>, listChangeCount |-> <<>>,
   doDiscordAlert |-> {}, index |-> 0, list |-> 0,
   run |-> 0, externalFailed |-> {}, externalFailedBefore |-> {}]

\* A call that is not retried throws; it uses up one unit of the fault budget.
Threw ==
  /\ faults < MaxFaults
  /\ faults' = faults + 1

\* status: {[Op.in]: ['TO_BE_CREATED', 'TO_BE_DELETED']}
PendingStatuses == {"TO_BE_CREATED", "TO_BE_DELETED"}

RECURSIVE ToExportFrom(_)
\* ExportBan.findAll({where: {status in PendingStatuses}}), in id order from
\* i on.
ToExportFrom(i) ==
  IF i > Len(exportBans) THEN <<>>
  ELSE (IF exportBans[i].status \in PendingStatuses
          THEN <<i>> ELSE <<>>) \o ToExportFrom(i + 1)

\* The tally of the found records per ban list (0: the list has no key).
ListChangeCount(found) ==
  [l \in DOMAIN exportBanLists |->
     Cardinality({i \in Range(found) : exportBans[i].exportBanList = l})]

\* A cap that still alerts per record at exactly the cap.
DoDiscordAlertAtCap(count) == count <= DISCORD_ALERT_CAP

\* exportBan.doDiscordAlert
DoDiscordAlert(count) == count < DISCORD_ALERT_CAP

\* The `continue` of the loop over listChangeCount.
SkipSummary(l, count) ==
  ~exportBanLists[l].discordWebhook \/ count < DISCORD_ALERT_CAP

RECURSIVE AtSummary(_, _)
\* The loop over Object.values(listChangeCount) from list l on: it stops at
\* the first list it has to send a summary for, or ends.
AtSummary(e, l) ==
  IF l > Len(exportBanLists) THEN [e EXCEPT !.pc = "done", !.list = l]
  ELSE IF e.listChangeCount[l] = 0 \/ SkipSummary(l, e.listChangeCount[l])
    THEN AtSummary(e, l + 1)
  ELSE [e EXCEPT !.pc = "summary", !.list = l]

\* The loop over exportBans reaches its i-th record and the first await of
\* createExportBan / deleteExportBan, or ends.
AtRecord(e, i) ==
  IF i > Len(e.exportBans) THEN AtSummary([e EXCEPT !.index = i], 1)
  ELSE [e EXCEPT
          !.index = i,
          !.pc = IF exportBanLists[exportBans[e.exportBans[i]].exportBanList].type
                      = "battlemetrics"
                   THEN "external" ELSE "save"]

\* The record the loop is at, and its ban list.
Current == exporter.exportBans[exporter.index]

CurrentList == exportBans[Current].exportBanList

\* ExportBan.findAll returned; the tally and the marking follow.
ExportFindAll ==
  /\ exporter.pc = "idle"
  /\ LET found == ToExportFrom(1)
         counts == ListChangeCount(found)
     IN exporter' =
          AtRecord([IdleExporter EXCEPT
                      !.run = exporter.run + 1,
                      !.externalFailedBefore = exporter.externalFailed,
                      !.exportBans = found,
                      !.listChangeCount = counts,
                      !.doDiscordAlert =
                        {i \in Range(found) :
                           DoDiscordAlert(counts[exportBans[i].exportBanList])}],
                   1)
  /\ UNCHANGED <<steamUsers, bans, now, faults, importVars, utilVars, refresher, ranker,
                 exportBans, exportBanLists, discord>>

\* ExportBan.findAll threw: exportExportBans throws.
ExportFindAllFailed ==
  /\ exporter.pc = "idle"
  /\ Threw
  /\ exporter' = [exporter EXCEPT !.pc = "thrown"]
  /\ UNCHANGED <<steamUsers, bans, now, importVars, utilVars, refresher, ranker,
                 exportBans, exportBanLists, discord>>

\* createBattlemetricsBan / deleteBattlemetricsBan returned.
ExternalReturned ==
  /\ exporter.pc = "external"
  /\ exportBans' = [exportBans EXCEPT
                      ![Current].remote = exportBans[Current].status = "TO_BE_CREATED"]
  /\ exporter' = [exporter EXCEPT !.pc = "save"]
  /\ UNCHANGED <<steamUsers, bans, now, faults, importVars, utilVars, refresher, ranker,
                 exportBanLists, discord>>

\* A loop over exportBans without its try/catch: the error of the record is
\* thrown on by exportExportBans.
RecordRethrown(e) == [e EXCEPT !.pc = "thrown"]

\* catch (err) { Logger.verbose(...) } in the loop over exportBans: the loop
\* goes on with the next record.
RecordCaught(e) == AtRecord(e, e.index + 1)

\* An external call whose error is swallowed: the record is saved or
\* destroyed as if the call had returned.
ExternalFailedIgnored ==
  /\ exporter.pc = "external"
  /\ Threw
  /\ exporter' = [exporter EXCEPT !.pc = "save",
                                  !.externalFailed = @ \cup {Current}]
  /\ UNCHANGED <<steamUsers, bans, now, importVars, utilVars, refresher, ranker,
                 exportBans, exportBanLists, discord>>

\* createBattlemetricsBan / deleteBattlemetricsBan threw: the loop logs it
\* and goes on.
ExternalFailed ==
  /\ exporter.pc = "external"
  /\ Threw
  /\ exporter' = RecordCaught([exporter EXCEPT !.externalFailed = @ \cup {Current}])
  /\ UNCHANGED <<steamUsers, bans, now, importVars, utilVars, refresher, ranker,
                 exportBans, exportBanLists, discord>>

\* exportBan.save() / exportBan.destroy() returned.
SaveReturned ==
  /\ exporter.pc = "save"
  /\ exportBans' = [exportBans EXCEPT
                      ![Current].status =
                        IF exportBans[Current].status = "TO_BE_CREATED"
                          THEN "CREATED" ELSE "DESTROYED"]
  /\ exporter' =
       IF ~exportBanLists[CurrentList].discordWebhook
          \/ Current \notin exporter.doDiscordAlert
         THEN AtRecord(exporter, exporter.index + 1)
         ELSE [exporter EXCEPT !.pc = "send"]
  /\ UNCHANGED <<steamUsers, bans, now, faults, importVars, utilVars, refresher, ranker,
                 exportBanLists, discord>>

\* exportBan.save() / exportBan.destroy() threw.
SaveFailed ==
  /\ exporter.pc = "save"
  /\ Threw
  /\ exporter' = RecordCaught(exporter)
  /\ UNCHANGED <<steamUsers, bans, now, importVars, utilVars, refresher, ranker,
                 exportBans, exportBanLists, discord>>

\* The message createExportBan / deleteExportBan hands to hook.send.
RecordAlert(delivered) ==
  [kind |-> IF exportBans[Current].status = "CREATED" THEN "added" ELSE "removed",
   exportBan |-> Current, exportBanList |-> CurrentList, delivered |-> delivered]

\* hook.send(message) of createExportBan / deleteExportBan returned.
SendReturned ==
  /\ exporter.pc = "send"
  /\ discord' = Append(discord, RecordAlert(TRUE))
  /\ exporter' = AtRecord(exporter, exporter.index + 1)
  /\ UNCHANGED <<steamUsers, bans, now, faults, importVars, utilVars, refresher, ranker,
                 exportBans, exportBanLists>>

\* A createExportBan / deleteExportBan whose hook.send is not in a try: its
\* error passes through the loop's catch, where the record is given up.
SendRethrown(e) == [e EXCEPT !.pc = "thrown"]

\* catch (err) { Logger.verbose(...) } around hook.send: createExportBan /
\* deleteExportBan returns and the loop goes on.
SendCaught(e) == AtRecord(e, e.index + 1)

\* hook.send(message) threw: a broken webhook is caught.
SendFailed ==
  /\ exporter.pc = "send"
  /\ Threw
  /\ discord' = Append(discord, RecordAlert(FALSE))
  /\ exporter' = SendCaught(exporter)
  /\ UNCHANGED <<steamUsers, bans, now, importVars, utilVars, refresher, ranker,
                 exportBans, exportBanLists>>

\* The message of the loop over listChangeCount.
SummaryAlert(delivered) ==
  [kind |-> "summary", exportBan |-> NULL, exportBanList |-> exporter.list,
   delivered |-> delivered]

\* hook.send(message) of the summary returned.
SummaryReturned ==
  /\ exporter.pc = "summary"
  /\ discord' = Append(discord, SummaryAlert(TRUE))
  /\ exporter' = AtSummary(exporter, exporter.list + 1)
  /\ UNCHANGED <<steamUsers, bans, now, faults, importVars, utilVars, refresher, ranker,
                 exportBans, exportBanLists>>

\* hook.send(message) of the summary threw: caught.
SummaryFailed ==
  /\ exporter.pc = "summary"
  /\ Threw
  /\ discord' = Append(discord, SummaryAlert(FALSE))
  /\ exporter' = AtSummary(exporter, exporter.list + 1)
  /\ UNCHANGED <<steamUsers, bans, now, importVars, utilVars, refresher, ranker,
                 exportBans, exportBanLists>>

\* The numbers of pending records a list may start a run with.
PendingCounts ==
  {0, 1, DISCORD_ALERT_CAP - 1, DISCORD_ALERT_CAP, MaxExportBans}

\* Two export ban lists: the first is a Battlemetrics list with or without a
\* webhook, the second a remote list with a webhook.  The rows of the second
\* list come first, creations and deletions alternate, and one row of the
\* first list is already CREATED.
InitExport ==
  /\ now = 1
  /\ steamUsers = <<>>
  /\ bans = <<>>
  /\ faults = 0
  /\ ImportIdle
  /\ refresher = [pc |-> "idle"]
  /\ ranker = IdleRanker
  /\ UtilIdle
  /\ \E n1 \in PendingCounts : \E n2 \in PendingCounts \ {DISCORD_ALERT_CAP, MaxExportBans} :
     \E discordWebhook \in BOOLEAN :
       /\ exportBanLists =
            << [discordWebhook |-> discordWebhook, type |-> "battlemetrics"],
               [discordWebhook |-> TRUE, type |-> "remote"] >>
       /\ exportBans =
            [i \in 1..(n1 + n2 + 1) |->
               [exportBanList |-> IF i <= n2 THEN 2 ELSE 1,
                remote |-> i > n1 + n2 \/ i % 2 = 0,
                status |-> IF i > n1 + n2 THEN "CREATED"
                           ELSE IF i % 2 = 1 THEN "TO_BE_CREATED"
                           ELSE "TO_BE_DELETED"]]
  /\ exporter = IdleExporter
  /\ discord = <<>>

NextExport ==
  \/ ExportFindAll
  \/ ExportFindAllFailed
  \/ ExternalReturned
  \/ ExternalFailed
  \/ SaveReturned
  \/ SaveFailed
  \/ SendReturned
  \/ SendFailed
  \/ SummaryReturned
  \/ SummaryFailed

SpecExport == InitExport /\ [][NextExport]_vars

\* The records of list l that were pending when the run started.
Pending(l) ==
  {i \in Range(exporter.exportBans) : exportBans[i].exportBanList = l}

\* The pending records of list l that were created or deleted.
Processed(l) ==
  {i \in Pending(l) : exportBans[i].status \in {"CREATED", "DESTROYED"}}

\* The individual alerts sent for record i.
IndividualAlerts(i) ==
  {k \in DOMAIN discord :
     discord[k].kind \in {"added", "removed"} /\ discord[k].exportBan = i}

\* The summary alerts sent for list l.
SummaryAlerts(l) ==
  {k \in DOMAIN discord :
     discord[k].kind = "summary" /\ discord[k].exportBanList = l}

\* C7: when exportExportBans has finished, for every list with a webhook:
\* with fewer than 50 pending records each processed record has its own
\* individual alert and the list has no summary alert; with 50 or more no
\* record has an individual alert and the list has exactly one summary alert.
C7_AlertSuppression ==
  exporter.pc = "done" =>
    \A l \in DOMAIN exportBanLists :
      exportBanLists[l].discordWebhook =>
        IF Cardinality(Pending(l)) < 50
          THEN /\ \A i \in Processed(l) : Cardinality(IndividualAlerts(i)) = 1
               /\ SummaryAlerts(l) = {}
          ELSE /\ \A i \in Pending(l) : IndividualAlerts(i) = {}
               /\ Cardinality(SummaryAlerts(l)) = 1

\* C7 witness: a finished run over 50 records of the first list and 49 of the
\* second, all processed: 49 individual alerts, all for the second list, and
\* one summary alert, for the first.
C7_Witness ==
  /\ exporter.pc = "done"
  /\ exportBanLists[1].discordWebhook
  /\ Cardinality(Pending(1)) = 50 /\ Processed(1) = Pending(1)
  /\ Cardinality(Pending(2)) = 49 /\ Processed(2) = Pending(2)
  /\ Len(discord) = 50
  /\ Cardinality(SummaryAlerts(1)) = 1
  /\ \A i \in Pending(2) : Cardinality(IndividualAlerts(i)) = 1

\* ------------------------------------------------ Core.updateReputationRank
MaxRankUsers == 3

MaxRankPoints == 10

MaxTicks == 2

RECURSIVE OrderByPointsDesc(_, _)
\* ORDER BY reputationPoints DESC over the rows with ids in ids.
OrderByPointsDesc(rows, ids) ==
  IF ids = {} THEN <<>>
  ELSE LET top == CHOOSE u \in ids :
                    \A v \in ids : rows[v].reputationPoints <= rows[u].reputationPoints
       IN <<top>> \o OrderByPointsDesc(rows, ids \ {top})

\* DENSE_RANK(): one plus the number of distinct values ahead in the order.
DenseRank(rows, order, k) ==
  1 + Cardinality({rows[order[j]].reputationPoints : j \in 1..(k - 1)}
                    \ {rows[order[k]].reputationPoints})

\* RANK(): the position of the row's first peer in the order.
Rank(rows, order, k) ==
  CHOOSE j \in 1..k :
    /\ rows[order[j]].reputationPoints = rows[order[k]].reputationPoints
    /\ \A i \in 1..(j - 1) :
         rows[order[i]].reputationPoints # rows[order[k]].reputationPoints

\* SELECT id, RANK() OVER (ORDER BY reputationPoints DESC) FROM SteamUsers
RankedSteamUsers(rows) ==
  LET ids == {u \in DOMAIN rows : rows[u].exists}
      order == OrderByPointsDesc(rows, ids)
  IN [u \in ids |->
        Rank(rows, order, CHOOSE k \in DOMAIN order : order[k] = u)]

\* SET @Dt = NOW() returned.
RankSetDt ==
  /\ ranker.pc = "idle"
  /\ ranker' = [ranker EXCEPT !.pc = "create", !.Dt = now]
  /\ UNCHANGED <<steamUsers, bans, now, faults, importVars, utilVars, refresher,
                 exportBans, exportBanLists, exporter, discord>>

\* CREATE TEMPORARY TABLE Temp_RankedSteamUsers ... returned.
RankCreateTemp ==
  /\ ranker.pc = "create"
  /\ ranker' = [ranker EXCEPT
                  !.pc = "update",
                  !.Temp_RankedSteamUsers = RankedSteamUsers(steamUsers)]
  /\ UNCHANGED <<steamUsers, bans, now, faults, importVars, utilVars, refresher,
                 exportBans, exportBanLists, exporter, discord>>

\* UPDATE SteamUsers su JOIN Temp_RankedSteamUsers rr ... returned.
RankUpdate ==
  /\ ranker.pc = "update"
  /\ steamUsers' =
       [u \in DOMAIN steamUsers |->
          IF u \in DOMAIN ranker.Temp_RankedSteamUsers
            THEN [steamUsers[u] EXCEPT
                    !.reputationRank = ranker.Temp_RankedSteamUsers[u],
                    !.lastRefreshedReputationRank = ranker.Dt]
            ELSE steamUsers[u]]
  /\ ranker' = [ranker EXCEPT !.pc = "done"]
  /\ UNCHANGED <<bans, now, faults, importVars, utilVars, refresher,
                 exportBans, exportBanLists, exporter, discord>>

\* One of the three queries threw: updateReputationRank throws.
RankFailed ==
  /\ ranker.pc \in {"idle", "create", "update"}
  /\ faults < MaxFaults
  /\ faults' = faults + 1
  /\ ranker' = [ranker EXCEPT !.pc = "thrown"]
  /\ UNCHANGED <<steamUsers, bans, now, importVars, utilVars, refresher,
                 exportBans, exportBanLists, exporter, discord>>

\* Time passes between two queries of the job.
RankTick ==
  /\ ranker.pc \in {"create", "update"}
  /\ now < MaxTicks
  /\ now' = now + 1
  /\ UNCHANGED <<steamUsers, bans, faults, importVars, coreVars>>

\* Any population of users with points, some with a rank from an earlier
\* run (stamped 0) and some invalidated since.
InitRank ==
  /\ now = 1
  /\ \E points \in [1..MaxRankUsers -> 0..MaxRankPoints] :
     \E ranked \in SUBSET (1..MaxRankUsers) :
       steamUsers = [u \in 1..MaxRankUsers |->
         [CachedSteamUser(0) EXCEPT
            !.reputationPoints = points[u],
            !.reputationRank = IF u \in ranked THEN u ELSE NULL,
            !.lastRefreshedReputationRank = IF u \in ranked THEN 0 ELSE NULL]]
  /\ bans = <<>>
  /\ faults = 0
  /\ ImportIdle
  /\ CoreIdle

NextRank ==
  \/ RankSetDt
  \/ RankCreateTemp
  \/ RankUpdate
  \/ RankFailed
  \/ RankTick

SpecRank == InitRank /\ [][NextRank]_vars

\* The users with strictly more points than u.
Ahead(u) ==
  {v \in DOMAIN steamUsers :
     steamUsers[v].reputationPoints > steamUsers[u].reputationPoints}

\* C11: when updateReputationRank has returned, every user's reputationRank
\* is one plus the number of users with strictly more reputationPoints, and
\* all users have the same lastRefreshedReputationRank, which is set.
C11_RankCountsUsersAhead ==
  ranker.pc = "done" =>
    \A u \in DOMAIN steamUsers :
      /\ steamUsers[u].reputationRank = 1 + Cardinality(Ahead(u))
      /\ steamUsers[u].lastRefreshedReputationRank # NULL
      /\ \A v \in DOMAIN steamUsers :
           steamUsers[v].lastRefreshedReputationRank
             = steamUsers[u].lastRefreshedReputationRank

\* C11 witness: points 10, 10, 7 got the ranks 1, 1, 3, stamped when the
\* job started although the clock moved on since.
C11_Witness ==
  /\ ranker.pc = "done"
  /\ steamUsers[1].reputationPoints = 10 /\ steamUsers[1].reputationRank = 1
  /\ steamUsers[2].reputationPoints = 10 /\ steamUsers[2].reputationRank = 1
  /\ steamUsers[3].reputationPoints = 7 /\ steamUsers[3].reputationRank = 3
  /\ steamUsers[1].lastRefreshedReputationRank < now

\* ----------------------------------------------------------- retryOperation
MaxRetriesArg == 3

MaxValues == 2

RETRY_DELAY == 5000

\* The kinds of error an operation may throw.
ErrorKinds == {"timeout", "429", "other"}

\* retries = MAX_RETRIES: the default of an argument that is not passed.
Retries(arg) == IF arg = NULL THEN MAX_RETRIES ELSE arg

\* A last attempt that is never recognised.
LastAttemptNever(attempt, retries) == FALSE

\* attempt === retries
LastAttempt(attempt, retries) == attempt = retries

\* retryOperation(operation[, retries]) is called: the loop starts.
RetryStart ==
  /\ retry.pc = "idle"
  /\ \E arg \in {NULL} \cup 1..MaxRetriesArg :
       retry' = [IdleRetry EXCEPT !.pc = "call", !.retries = Retries(arg),
                                  !.attempt = 1]
  /\ UNCHANGED <<steamUsers, bans, now, faults, importVars, refresher,
                 exportBans, exportBanLists, exporter, discord, ranker, race>>

\* operation() returned a value: retryOperation returns it.
OperationReturned ==
  /\ retry.pc = "call"
  /\ \E value \in 1..MaxValues :
       retry' = [retry EXCEPT
                   !.pc = "returned",
                   !.invoked = Append(@, [ok |-> TRUE, value |-> value,
                                          error |-> NoError]),
                   !.returned = value]
  /\ UNCHANGED <<steamUsers, bans, now, faults, importVars, refresher,
                 exportBans, exportBanLists, exporter, discord, ranker, race>>

\* operation() threw: on the last attempt the error is thrown on, otherwise
\* it is logged and the delay starts.
OperationThrew ==
  /\ retry.pc = "call"
  /\ \E kind \in ErrorKinds :
       LET err == [kind |-> kind, at |-> Len(retry.invoked) + 1]
           r == [retry EXCEPT
                   !.invoked = Append(@, [ok |-> FALSE, value |-> NULL,
                                          error |-> err])]
       IN retry' = IF LastAttempt(retry.attempt, retry.retries)
                     THEN [r EXCEPT !.pc = "thrown", !.thrown = err]
                     ELSE [r EXCEPT !.pc = "delay"]
  /\ UNCHANGED <<steamUsers, bans, now, faults, importVars, refresher,
                 exportBans, exportBanLists, exporter, discord, ranker, race>>

\* The delay is over: attempt++, and the loop goes on or ends (a function
\* that falls off its end returns undefined).
RetryDelayed ==
  /\ retry.pc = "delay"
  /\ now' = now + RETRY_DELAY
  /\ retry' = IF retry.attempt + 1 <= retry.retries
                THEN [retry EXCEPT !.pc = "call", !.attempt = @ + 1]
                ELSE [retry EXCEPT !.pc = "returned", !.attempt = @ + 1]
  /\ UNCHANGED <<steamUsers, bans, faults, importVars, refresher,
                 exportBans, exportBanLists, exporter, discord, ranker, race>>

InitRetry ==
  /\ now = 0
  /\ steamUsers = <<>>
  /\ bans = <<>>
  /\ faults = 0
  /\ ImportIdle
  /\ CoreIdle

NextRetry ==
  \/ RetryStart
  \/ OperationReturned
  \/ OperationThrew
  \/ RetryDelayed

SpecRetry == InitRetry /\ [][NextRetry]_vars

\* The invocations of operation so far that threw.
Failed == {k \in DOMAIN retry.invoked : ~retry.invoked[k].ok}

\* C12: retryOperation invokes operation at most `retries` times; it goes on
\* exactly while every invocation so far threw, whatever the kind of error;
\* it returns the value of the first invocation that returned, and throws,
\* after `retries` invocations that all threw, the error of the last one.
C12_RetryOperation ==
  /\ Len(retry.invoked) <= retry.retries
  /\ retry.pc \in {"call", "delay"} =>
       /\ Failed = DOMAIN retry.invoked
       /\ Len(retry.invoked) < retry.retries
  /\ retry.pc = "returned" =>
       /\ retry.invoked # <<>>
       /\ Failed = 1..(Len(retry.invoked) - 1)
       /\ retry.returned = retry.invoked[Len(retry.invoked)].value
  /\ retry.pc = "thrown" =>
       /\ Len(retry.invoked) = retry.retries
       /\ Failed = DOMAIN retry.invoked
       /\ retry.thrown = retry.invoked[retry.retries].error

\* C12 witness: a call with the default number of retries whose operation
\* threw five times, with errors of different kinds, throws the fifth error.
C12_Witness ==
  /\ retry.pc = "thrown"
  /\ retry.retries = MAX_RETRIES
  /\ Len(retry.invoked) = MAX_RETRIES
  /\ retry.thrown.at = MAX_RETRIES
  /\ \E j, k \in DOMAIN retry.invoked :
       retry.invoked[j].error.kind # retry.invoked[k].error.kind

\* -------------------------------------------------------------- withTimeout
MaxHalves == 6

UPDATE_STEAM_USER_INFO_BATCH_TIMEOUT == 300000

\* The step of the clock: half the time limit.
HalfLimit == UPDATE_STEAM_USER_INFO_BATCH_TIMEOUT \div 2

\* The two call sites: withTimeout(await steam(...)) and
\* withTimeout(await SteamUser.update(...)).
Sites == {"steam", "update"}

\* Promise.race([promise, timeout]) when it is called: an argument that is
\* not a promise, or a promise already settled, wins; otherwise the race is
\* pending.
RaceAtCall(promise) ==
  CASE promise = "resolved" -> "value"
    [] promise = "rejected" -> "error"
    [] OTHER -> "none"

\* The operation is called and the argument expression `await op(...)` waits
\* for it.
OpStart ==
  /\ race.pc = "idle"
  /\ \E site \in Sites :
       race' = [IdleRace EXCEPT !.pc = "argument", !.site = site,
                                !.op = "pending", !.started = now]
  /\ UNCHANGED <<steamUsers, bans, now, faults, importVars, refresher,
                 exportBans, exportBanLists, exporter, discord, ranker, retry>>

\* The operation resolves: the argument's await resumes, withTimeout(value)
\* is called, sets its timer and races the value against it.
OpResolved ==
  /\ race.pc = "argument"
  /\ race.op = "pending"
  /\ \E value \in 1..MaxValues :
       race' = [race EXCEPT
                  !.op = "resolved",
                  !.timer = "pending",
                  !.deadline = now + UPDATE_STEAM_USER_INFO_BATCH_TIMEOUT,
                  !.outcome = RaceAtCall("resolved"),
                  !.result = value,
                  !.pc = "done"]
  /\ UNCHANGED <<steamUsers, bans, now, faults, importVars, refresher,
                 exportBans, exportBanLists, exporter, discord, ranker, retry>>

\* The operation rejects: the argument's await throws and withTimeout is
\* not called.
OpRejected ==
  /\ race.pc = "argument"
  /\ race.op = "pending"
  /\ race' = [race EXCEPT !.op = "rejected", !.outcome = "error", !.pc = "done"]
  /\ UNCHANGED <<steamUsers, bans, now, faults, importVars, refresher,
                 exportBans, exportBanLists, exporter, discord, ranker, retry>>

\* timeoutClosure2 runs: the timeout promise rejects with myError, and a race
\* still pending settles with it.
TimerFired ==
  /\ race.timer = "pending"
  /\ now >= race.deadline
  /\ race' = [race EXCEPT
                !.timer = "fired",
                !.outcome = IF @ = "none" THEN "timeout" ELSE @]
  /\ UNCHANGED <<steamUsers, bans, now, faults, importVars, refresher,
                 exportBans, exportBanLists, exporter, discord, ranker, retry>>

\* Time passes; a timer that is due fires first.
TimePasses ==
  /\ race.pc # "idle"
  /\ ~(race.timer = "pending" /\ now >= race.deadline)
  /\ now < MaxHalves * HalfLimit
  /\ now' = now + HalfLimit
  /\ UNCHANGED <<steamUsers, bans, faults, importVars, coreVars>>

InitTimeout ==
  /\ now \in {0, HalfLimit}
  /\ steamUsers = <<>>
  /\ bans = <<>>
  /\ faults = 0
  /\ ImportIdle
  /\ CoreIdle

NextTimeout ==
  \/ OpStart
  \/ OpResolved
  \/ OpRejected
  \/ TimerFired
  \/ TimePasses

SpecTimeout == InitTimeout /\ [][NextTimeout]_vars

\* C13: once the time limit has passed since the guarded operation was
\* called, the caller has an outcome: the operation's own if it settled
\* within the limit, the timeout failure otherwise.
C13_TimeoutAtDeadline ==
  (race.pc # "idle"
   /\ now > race.started + UPDATE_STEAM_USER_INFO_BATCH_TIMEOUT)
    => race.outcome # "none"

\* ------------------------------------------------- claims on dropped batches
\* The ids of the bans waiting on the save queue or held by a worker.
InSaveQueue ==
  {saveBanQueue[i].id : i \in DOMAIN saveBanQueue}
    \cup {workers[w].importedBan.id : w \in {v \in WorkerIds : workers[v].pc # "idle"}}

\* C14: the step in which the bulk upsert of a batch fails on every attempt
\* adds nothing to the save queue, to the touched list ids or to the
\* imported ids, and returns to the fetch loop instead of throwing.
C14_FailedBatchDropped ==
  [][hist'.dropped # hist.dropped =>
       /\ saveBanQueue' = saveBanQueue
       /\ importedBanListIDs' = importedBanListIDs
       /\ importedBanIDs' = importedBanIDs
       /\ importer.pc = "queueBan"
       /\ importer'.pc = "fetch"]_vars

\* C14 witness: the run ended after a batch was dropped; its bans did not
\* reach the store.
C14_Witness ==
  /\ importer.pc = "done"
  /\ hist.dropped # {}
  /\ \A b \in hist.dropped : ~bans[b].exists

\* ------------------------------------------- claims on abandoned batches
\* C15: when the API call of a batch has timed out on all three attempts,
\* updateSteamUserInfo has not thrown: it goes on with the remaining batches.
C15_TimedOutBatchSkipped ==
  (/\ refresher.pc # "idle"
   /\ refresher.data.null
   /\ refresher.numAttempts = UPDATE_STEAM_USER_INFO_BATCH_RETRIES)
    => refresher.pc # "thrown"

\* C16: the step in which the API call of a batch fails with an error that
\* is neither a timeout nor a 429 abandons the batch (the job is at the next
\* batch or has ended), and the API is never called more than three times
\* for one batch.
C16_OtherFailureAbandonsBatch ==
  /\ [][(/\ refresher.pc = "steam"
         /\ refresher'.otherErrors # refresher.otherErrors)
          => (refresher'.pc = "done" \/ refresher'.batch # refresher.batch)]_vars
  /\ [](refresher.pc # "idle"
          => refresher.calls <= UPDATE_STEAM_USER_INFO_BATCH_RETRIES)

\* ------------------------------------------------- claims on the reconciler
\* A step of the reconciler's user update or ban deletion.
ReconcilerStep ==
  importer.pc \in {"update", "destroy"} /\ importer'.pc # importer.pc

\* The stored bans of touched lists whose ids the run did not import.
Orphans ==
  {b \in DOMAIN bans :
     /\ bans[b].exists
     /\ bans[b].banList \in importedBanListIDs
     /\ b \notin Range(importedBanIDs)}

\* C17: in a step of the reconciler every Ban that disappears belongs to a
\* touched list, every user whose row changes owns an orphan of a touched
\* list, and with no touched list or no orphan neither table changes.
C17_ReconcilerOnlyTouchedLists ==
  [][ReconcilerStep =>
       /\ \A b \in DOMAIN bans :
            (bans[b].exists /\ ~bans'[b].exists)
              => bans[b].banList \in importedBanListIDs
       /\ \A u \in DOMAIN steamUsers :
            steamUsers'[u] # steamUsers[u]
              => \E b \in Orphans : bans[b].steamUser = u
       /\ (importedBanListIDs = {} \/ Orphans = {})
            => (bans' = bans /\ steamUsers' = steamUsers)]_vars

\* C17 witness: the run deleted an orphan of a touched list and left the
\* ban of an untouched list, which it did not import either, in the store.
C17_Witness ==
  /\ importer.pc = "done"
  /\ hist.deleted # {}
  /\ \E b \in DOMAIN bans :
       /\ bans[b].exists
       /\ bans[b].banList \notin importedBanListIDs
       /\ b \notin Range(importedBanIDs)

\* ------------------------------------------- claims on failing export records
\* The records read at the start of the run that were not created or deleted.
NotProcessed ==
  {i \in Range(exporter.exportBans) :
     exportBans[i].status \in {"TO_BE_CREATED", "TO_BE_DELETED"}}

\* C18: exportExportBans throws only if its first query throws; when it has
\* finished, each throwing call has left at most one of the records read at
\* the start unprocessed, and every list with a webhook and 50 or more
\* pending records has its summary alert.
C18_RecordFailuresDoNotStopRun ==
  /\ exporter.pc = "thrown" => exporter.exportBans = <<>>
  /\ exporter.pc = "done" =>
       /\ Cardinality(NotProcessed) <= faults
       /\ \A l \in DOMAIN exportBanLists :
            (exportBanLists[l].discordWebhook /\ Cardinality(Pending(l)) >= 50)
              => SummaryAlerts(l) # {}

\* C18 witness: a finished run in which a call for the first record of a
\* list with 50 pending records threw: the 49 others are processed and the
\* summary alert is sent.
C18_Witness ==
  /\ exporter.pc = "done"
  /\ exportBanLists[1].discordWebhook
  /\ Cardinality(Pending(1)) = 50
  /\ Pending(2) = {}
  /\ NotProcessed = {1}
  /\ Cardinality(Processed(1)) = 49
  /\ SummaryAlerts(1) # {}

\* C19: every ban on the save queue or held by a worker has its id among the
\* imported ids, and no step removes from the store a Ban whose id was
\* pushed onto the save queue in this run, whatever the workers are doing.
C19_EnqueuedBansNotDeleted ==
  /\ [](InSaveQueue \subseteq Range(importedBanIDs))
  /\ [][\A b \in DOMAIN bans :
          (bans[b].exists /\ ~bans'[b].exists) => b \notin hist.queued]_vars

\* C19 witness: the reconciler deleted an orphan and returned while a save
\* task of the run was still running; a ban the run enqueued is in the store.
C19_Witness ==
  /\ importer.pc = "done"
  /\ hist.deleted # {}
  /\ \E w \in WorkerIds : workers[w].pc # "idle"
  /\ \E b \in hist.queued : bans[b].exists

\* C20: no step removes from the store a Ban that its source list reports
\* in this run.
C20_ReportedBansNotDeleted ==
  [][\A b \in DOMAIN bans :
       (bans[b].exists /\ ~bans'[b].exists) => ~source[b].reported]_vars

\* --------------------------------------- exportExportBans, run after run
\* exportExportBans has returned and is called again.
ExportAgain ==
  /\ exporter.pc = "done"
  /\ exporter.run < MaxRuns
  /\ exporter' = [exporter EXCEPT !.pc = "idle"]
  /\ UNCHANGED <<steamUsers, bans, now, faults, importVars, utilVars, refresher,
                 ranker, exportBans, exportBanLists, discord>>

NextExportRerun ==
  \/ NextExport
  \/ ExportAgain

SpecExportRerun == InitExport /\ [][NextExportRerun]_vars

\* C21: the step in which the external create or delete call of a record
\* throws changes no row and sends no alert; as long as the run lasts the
\* record keeps its pending status and has no individual alert; and the next
\* run, once its query has returned, has selected the record again.
C21_ExternalFailureLeavesRecord ==
  /\ [][(exporter.pc = "external" /\ faults' # faults)
          => (exportBans' = exportBans /\ discord' = discord)]_vars
  /\ [](\A i \in exporter.externalFailed :
          /\ exportBans[i].status \in {"TO_BE_CREATED", "TO_BE_DELETED"}
          /\ IndividualAlerts(i) = {})
  /\ [](exporter.pc \notin {"idle", "thrown"}
          => exporter.externalFailedBefore \subseteq Range(exporter.exportBans))

\* C21 witness: the external delete call of a record threw in the first run;
\* the second run selected the record again and deleted it.
C21_Witness ==
  /\ exporter.run = 2
  /\ exporter.pc = "done"
  /\ \E i \in exporter.externalFailedBefore :
       /\ i \in Range(exporter.exportBans)
       /\ exportBans[i].status = "DESTROYED"

\* ------------------------------------------------ claims on individual alerts
\* The individual alert handed to hook.send in this step, if any.
NewIndividualAlert ==
  /\ Len(discord') = Len(discord) + 1
  /\ discord'[Len(discord')].kind \in {"added", "removed"}

\* C22: when an individual alert is handed to the webhook, its record has
\* already been saved as CREATED (alert "added") or destroyed (alert
\* "removed"), after the external call of a battlemetrics list returned; it
\* is the record the loop is at and no individual alert was handed over for
\* it before in the run; and the step of a send that fails changes no record
\* and does not make the run throw: the loop goes on after the record.
C22_AlertAfterSavedOnce ==
  [][NewIndividualAlert =>
       LET m == discord'[Len(discord')]
           row == exportBans[m.exportBan]
       IN /\ row.status = IF m.kind = "added" THEN "CREATED" ELSE "DESTROYED"
          /\ m.exportBan = Current
          /\ IndividualAlerts(m.exportBan) = {}
          /\ exportBanLists[row.exportBanList].type = "battlemetrics"
               => row.remote = (m.kind = "added")
          /\ exportBans' = exportBans
          /\ ~m.delivered =>
               /\ exporter'.pc \in {"external", "save", "summary", "done"}
               /\ exporter'.pc \in {"external", "save"}
                    => exporter'.index = exporter.index + 1]_vars

\* C22 witness: a finished run in which the alert of a created record and
\* the alert of a deleted record of a battlemetrics list were handed to the
\* webhook, one of them failing; both records keep their new state.
C22_Witness ==
  /\ exporter.pc = "done"
  /\ \E j, k \in DOMAIN discord :
       /\ discord[j].kind = "added" /\ discord[k].kind = "removed"
       /\ ~discord[j].delivered
       /\ exportBanLists[discord[j].exportBanList].type = "battlemetrics"
       /\ exportBanLists[discord[k].exportBanList].type = "battlemetrics"
       /\ exportBans[discord[j].exportBan].status = "CREATED"
       /\ exportBans[discord[j].exportBan].remote
       /\ exportBans[discord[k].exportBan].status = "DESTROYED"
       /\ ~exportBans[discord[k].exportBan].remote

====
